---------------------------- MODULE Spec2Model ----------------------------
(***************************************************************************)
(* A model of the transit router of src/node.py: the network built from a  *)
(* line map (Network.from_line_dict), the Path value with its comparator   *)
(* and its append/pop bookkeeping, and Network.route_to with its relevance *)
(* filter (_find_needed_lines), raw path enumeration (_get_all_raw_paths), *)
(* sequence trees (_get_sequence_tree) and branch-and-bound search         *)
(* (_get_best_path).                                                       *)
(*                                                                         *)
(* Station ids and line ids are small naturals instead of strings.  A line *)
(* map (a Python dict, which keeps insertion order) is a sequence of       *)
(* lines: line id k is the k-th key of the dict.                           *)
(***************************************************************************)
EXTENDS Integers, Sequences, FiniteSets, TLC

(***************************************************************************)
(* Bounds of the model.                                                    *)
(***************************************************************************)
\* stations 1..NumStations may appear on lines
NumStations == 4
\* a line map holds at most MaxLines lines
MaxLines == 3
\* a line holds at most MaxLineLen stations
MaxLineLen == 4
\* the lines of a line map hold at most MaxStops stations together
MaxStops == 6
\* the level counter of the line search is followed up to MaxLevel
MaxLevel == 5
\* SpecPath: Path.append is followed up to MaxPathLen connections
MaxPathLen == 3
\* SpecPath: the distance of an appended Connection is in 0..MaxDistance
MaxDistance == 2

(***************************************************************************)
(* Program constants and encodings.                                        *)
(***************************************************************************)
\* float('inf'), the sentinel's distance; every real distance is >= 0
inf == -1
\* sys.maxsize, the sentinel's num_transfers.  CPython's value (2^63 - 1)
\* is outside TLC's integers; the model uses TLC's largest integer, which
\* like the real one is above every transfer count a path can have.
maxsize == 2147483647
\* the "MARK" entry of the line search's queue (line ids are 1, 2, ...)
MARK == 0
\* Python's None for currentLine
None == 0

Stations == 1..NumStations
\* a station id that is a key of no node_dict
UnknownStation == NumStations + 2
\* a station Network(node_dict) may hold with an empty connection list
IsolatedStation == NumStations + 1

Range(s) == {s[i] : i \in DOMAIN s}

Last(s) == s[Len(s)]

Front(s) == SubSeq(s, 1, Len(s) - 1)

RECURSIVE Flatten(_)
\* the concatenation of a sequence of sequences
Flatten(ss) == IF ss = <<>> THEN <<>> ELSE Head(ss) \o Flatten(Tail(ss))

RECURSIVE Dedup(_)
\* a sequence without its repeated entries, first occurrences kept in order
\* (the key order of a dict filled by d[k] = ...)
Dedup(s) ==
  IF s = <<>> THEN <<>>
  ELSE LET f == Dedup(Front(s))
       IN IF Last(s) \in Range(f) THEN f ELSE Append(f, Last(s))

RECURSIVE SetToSeq(_)
\* one enumeration of a finite set (the iteration order of a Python set)
SetToSeq(S) ==
  IF S = {} THEN <<>>
  ELSE LET x == CHOOSE y \in S : TRUE IN <<x>> \o SetToSeq(S \ {x})

(***************************************************************************)
(* Connection, Transfer (NamedTuples) and Path (dataclass).                *)
(***************************************************************************)
Connection(node_id, line_id, distance) ==
  [node_id |-> node_id, line_id |-> line_id, distance |-> distance]

Transfer(node_id, from_line, to_line) ==
  [node_id |-> node_id, from_line |-> from_line, to_line |-> to_line]

Path(path, distance, num_stations, num_transfers, transfers) ==
  [path |-> path, distance |-> distance, num_stations |-> num_stations,
   num_transfers |-> num_transfers, transfers |-> transfers]

\* float comparison a < b, with inf above every other value
FloatLt(a, b) == IF a = inf THEN FALSE ELSE IF b = inf THEN TRUE ELSE a < b

\* a comparison that lets the equal distance through
PathLtOrSame(self, value) ==
  IF self.num_transfers < value.num_transfers THEN TRUE
  ELSE IF self.num_transfers > value.num_transfers THEN FALSE
  ELSE ~FloatLt(value.distance, self.distance)

\* Path.__lt__
PathLt(self, value) ==
  IF self.num_transfers < value.num_transfers THEN TRUE
  ELSE IF self.num_transfers > value.num_transfers THEN FALSE
  ELSE FloatLt(self.distance, value.distance)

\* Path.__eq__
PathEq(self, value) ==
  self.num_transfers = value.num_transfers /\ self.distance = value.distance

\* Path.append
PathAppend(self, value) ==
  LET path == Append(self.path, value)
      changes == Len(path) >= 2 /\ value.line_id # path[Len(path) - 1].line_id
  IN [path |-> path,
      distance |-> self.distance + value.distance,
      num_stations |-> self.num_stations + 1,
      num_transfers |-> IF changes THEN self.num_transfers + 1
                        ELSE self.num_transfers,
      transfers |-> IF changes
                    THEN Append(self.transfers,
                                Transfer(path[Len(path) - 1].node_id,
                                         path[Len(path) - 1].line_id,
                                         value.line_id))
                    ELSE self.transfers]

\* Path.pop (the path is not empty)
PathPop(self) ==
  LET n == Len(self.path)
      changes == n >= 2 /\ self.path[n].line_id # self.path[n - 1].line_id
  IN [path |-> Front(self.path),
      distance |-> self.distance - self.path[n].distance,
      num_stations |-> self.num_stations - 1,
      num_transfers |-> IF changes THEN self.num_transfers - 1
                        ELSE self.num_transfers,
      transfers |-> IF changes THEN Front(self.transfers) ELSE self.transfers]

\* a set_self that leaves num_stations as it was
PathSetSelfKeepsStations(self, value) ==
  [path |-> value.path, distance |-> value.distance,
   num_stations |-> self.num_stations,
   num_transfers |-> value.num_transfers, transfers |-> value.transfers]

\* Path.set_self: the fields of value, the lists copied
PathSetSelf(self, value) ==
  [path |-> value.path, distance |-> value.distance,
   num_stations |-> value.num_stations,
   num_transfers |-> value.num_transfers, transfers |-> value.transfers]

\* Network._transfers
Transfers(path) ==
  LET idx == {i \in 1..(Len(path) - 1) : path[i].line_id # path[i + 1].line_id}
      RECURSIVE Build(_)
      Build(i) ==
        IF i > Len(path) - 1 THEN <<>>
        ELSE (IF i \in idx
              THEN <<Transfer(path[i].node_id, path[i].line_id,
                              path[i + 1].line_id)>>
              ELSE <<>>) \o Build(i + 1)
  IN Build(1)

\* the Path route_to starts its search from
SentinelPath == Path(<<>>, inf, 0, maxsize, <<>>)

\* the Path _get_best_path starts every tree from
EmptyPath == Path(<<>>, 0, 0, 0, <<>>)

(***************************************************************************)
(* Network.from_line_dict (and parser.line_dict_to_node_dict, the same     *)
(* loop): the connection list of every station.                            *)
(***************************************************************************)
\* the connections position i of line line_id gives its station
PositionConnections(line, line_id, i) ==
  IF i = 1 THEN <<Connection(line[i + 1], line_id, 1)>>
  ELSE IF i = Len(line) THEN <<Connection(line[i - 1], line_id, 1)>>
  ELSE <<Connection(line[i - 1], line_id, 1), Connection(line[i + 1], line_id, 1)>>

\* connection_list of node: lines in key order, positions in order
ConnectionList(line_dict, node) ==
  Flatten([line_id \in 1..Len(line_dict) |->
            Flatten([i \in 1..Len(line_dict[line_id]) |->
                      IF line_dict[line_id][i] = node
                      THEN PositionConnections(line_dict[line_id], line_id, i)
                      ELSE <<>>])])

\* line[i+1] with i = 0 on a line of one station: IndexError
FromLineDictRaises(line_dict) ==
  \E line_id \in 1..Len(line_dict) : Len(line_dict[line_id]) = 1

\* the node_dict from_line_dict hands to Network(...)
from_line_dict(line_dict) ==
  LET nodes == UNION {Range(line_dict[k]) : k \in 1..Len(line_dict)}
  IN [node \in nodes |-> ConnectionList(line_dict, node)]

(***************************************************************************)
(* Node queries.                                                           *)
(***************************************************************************)
\* Node.get_connected_nodes (a list made from a set: no fixed order)
get_connected_nodes(node_dict, node) ==
  {node_dict[node][i].node_id : i \in DOMAIN node_dict[node]}

\* Node.get_connected_lines: one entry per connection, repeats kept
get_connected_lines(node_dict, node) ==
  [i \in DOMAIN node_dict[node] |-> node_dict[node][i].line_id]

(***************************************************************************)
(* Network._find_needed_lines, first part: the line graph.                 *)
(***************************************************************************)
\* the lines of the connections of a station
LinesAt(node_dict, node) == Range(get_connected_lines(node_dict, node))

\* a junction: a station with more than one connection
Junctions(node_dict) == {n \in DOMAIN node_dict : Len(node_dict[n]) > 1}

\* line_graph after "remove every line from its own set": its keys are the
\* lines seen at a junction, each mapped to the other lines of its junctions
LineGraph(node_dict) ==
  LET keys == UNION {LinesAt(node_dict, n) : n \in Junctions(node_dict)}
  IN [line \in keys |->
        UNION {LinesAt(node_dict, n) :
                 n \in {m \in Junctions(node_dict) : line \in LinesAt(node_dict, m)}}
        \ {line}]

(***************************************************************************)
(* Network._get_all_raw_paths.  visited, paths and path are the objects    *)
(* the recursion shares; the operator returns all three as the call leaves *)
(* them.                                                                   *)
(***************************************************************************)
\* the inner loop over the station's connections finds a needed line
HasNeededConnection(node_dict, start, needed) ==
  \E i \in DOMAIN node_dict[start] : node_dict[start][i].line_id \in needed

RECURSIVE get_all_raw_paths(_, _, _, _, _, _, _)
RECURSIVE RawPathsLoop(_, _, _, _, _, _)

\* a return that forgets path.pop()
RawPathsLeaveNoPop(start, acc) ==
  [paths |-> acc.paths,
   path |-> acc.path,
   visited |-> [acc.visited EXCEPT ![start] = FALSE]]

\* the last two lines of _get_all_raw_paths before "return paths"
RawPathsLeave(start, acc) ==
  [paths |-> acc.paths,
   path |-> Front(acc.path),
   visited |-> [acc.visited EXCEPT ![start] = FALSE]]

get_all_raw_paths(node_dict, start, end, needed, visited, paths, path) ==
  LET entered == [paths |-> paths,
                  path |-> Append(path, start),
                  visited |-> [visited EXCEPT ![start] = TRUE]]
  IN IF start = end
     THEN RawPathsLeave(start, [entered EXCEPT !.paths = @ \cup {entered.path}])
     ELSE RawPathsLeave(start,
            RawPathsLoop(node_dict, start, end, needed,
                         SetToSeq(get_connected_nodes(node_dict, start)), entered))

\* "for node in self.node_dict[start].get_connected_nodes()", nodes left to do
RawPathsLoop(node_dict, start, end, needed, nodes, acc) ==
  IF nodes = <<>> THEN acc
  ELSE IF ~HasNeededConnection(node_dict, start, needed)
       THEN RawPathsLoop(node_dict, start, end, needed, Tail(nodes), acc)
  ELSE IF acc.visited[Head(nodes)] = FALSE
       THEN RawPathsLoop(node_dict, start, end, needed, Tail(nodes),
              get_all_raw_paths(node_dict, Head(nodes), end, needed,
                                acc.visited, acc.paths, acc.path))
  ELSE RawPathsLoop(node_dict, start, end, needed, Tail(nodes), acc)

(***************************************************************************)
(* Network._get_sequence_tree.  A tree (a dict Connection -> tree) is the  *)
(* sequence of its items in key order, each [connection, tree].            *)
(***************************************************************************)
\* a test that does not look at the lines visited
BoardsAnyLine(connection, next, linesVisited, currentLine) ==
  connection.node_id = next

\* the test a connection passes to enter the tree: it leads to the next
\* station of the raw path and does not transfer to a line used before
Boards(connection, next, linesVisited, currentLine) ==
  /\ connection.node_id = next
  /\ \/ currentLine = None
     \/ connection.line_id = currentLine
     \/ connection.line_id \notin linesVisited

RECURSIVE get_sequence_tree(_, _, _, _)
get_sequence_tree(node_dict, rp, linesVisited, currentLine) ==
  IF Len(rp) = 1 THEN <<>>
  ELSE LET Taken(connection) == Boards(connection, rp[2], linesVisited, currentLine)
           keys == Dedup(SelectSeq(node_dict[rp[1]], Taken))
       IN [k \in DOMAIN keys |->
             [connection |-> keys[k],
              tree |-> get_sequence_tree(node_dict, Tail(rp),
                                         linesVisited \cup {keys[k].line_id},
                                         keys[k].line_id)]]

(***************************************************************************)
(* Network._get_best_path.  min_path and path are objects the recursion    *)
(* shares; the record acc holds both as a call leaves them, with           *)
(*   raised : path.path[-1] raised IndexError;                             *)
(*   shares : the lists of min_path are the list objects of path, so that  *)
(*            an append or a pop on path is one on min_path as well;       *)
(*   events : what was done to path and min_path, in order: each append,   *)
(*            pop and set_self with the path it left (path), the path      *)
(*            before an append (from), min_path before (old) and after     *)
(*            (new), and for an append whether the loop descended.         *)
(***************************************************************************)
RECURSIVE BestPathCall(_, _, _)
RECURSIVE BestPathLoop(_, _, _, _)

\* a set_self that keeps the lists of value instead of copying them
SetSelfAliases == FALSE

\* set_self assigns value.path.copy() and value.transfers.copy(): the lists
\* of the Path set are new objects
SetSelfCopies == TRUE

\* min_path as seen after path was changed by append or pop
Follow(min_path, path, shares) ==
  IF shares
  THEN [min_path EXCEPT !.path = path.path, !.transfers = path.transfers]
  ELSE min_path

Event(kind, from, path, old, new, descends) ==
  [kind |-> kind, from |-> from, path |-> path, old |-> old, new |-> new,
   descends |-> descends]

\* the leaf: "if len(tree) == 0"
BestPathLeaf(destination_id, acc) ==
  IF acc.path.path = <<>>
  THEN [acc EXCEPT !.raised = TRUE]
  ELSE IF /\ Last(acc.path.path).node_id = destination_id
          /\ PathLt(acc.path, acc.min_path)
       THEN LET new == PathSetSelf(acc.min_path, acc.path)
            IN [acc EXCEPT !.min_path = new,
                           !.shares = ~SetSelfCopies,
                           !.events = Append(@, Event("set_self", acc.path, acc.path,
                                                      acc.min_path, new, FALSE))]
  ELSE acc

\* a bound that looks at the distance alone
DescendsOnDistance(path, min_path) == FloatLt(path.distance, min_path.distance)

\* whether the loop descends below the connection just appended
Descends(path, min_path) == PathLt(path, min_path)

\* the body of _get_best_path after "if not path"
BestPathCall(destination_id, t, acc) ==
  IF Len(t) = 0
  THEN BestPathLeaf(destination_id, acc)
  ELSE BestPathLoop(destination_id, t, acc, 1)

\* "for connection in tree", from the k-th item on
BestPathLoop(destination_id, t, acc, k) ==
  IF k > Len(t) \/ acc.raised THEN acc
  ELSE LET appended == PathAppend(acc.path, t[k].connection)
           seen == Follow(acc.min_path, appended, acc.shares)
           descends == Descends(appended, seen)
           entered == [acc EXCEPT
                         !.path = appended,
                         !.min_path = seen,
                         !.events = Append(@, Event("append", acc.path, appended,
                                                    acc.min_path, seen, descends))]
           below == IF descends
                    THEN BestPathCall(destination_id, t[k].tree, entered)
                    ELSE entered
       IN IF below.raised THEN below
          ELSE LET popped == PathPop(below.path)
                   after == Follow(below.min_path, popped, below.shares)
               IN BestPathLoop(destination_id, t,
                               [below EXCEPT
                                  !.path = popped,
                                  !.min_path = after,
                                  !.events = Append(@, Event("pop", below.path, popped,
                                                             below.min_path, after,
                                                             FALSE))],
                               k + 1)

\* _get_best_path as route_to calls it: path is the fresh Path([], 0, 0, 0, [])
get_best_path(destination_id, t, min_path, path) ==
  BestPathCall(destination_id, t,
               [min_path |-> min_path, path |-> path, raised |-> FALSE,
                shares |-> FALSE, events |-> <<>>])

(***************************************************************************)
(* The inputs the model draws.                                             *)
(***************************************************************************)
\* station ids are interchangeable, so a line map is drawn with its stations
\* numbered in the order they first appear: with stations 1..m seen so far,
\* the next new station is m + 1
Max(a, b) == IF a > b THEN a ELSE b

Min(a, b) == IF a < b THEN a ELSE b

RECURSIVE MaxOf(_)
MaxOf(line) == IF line = <<>> THEN 0 ELSE Max(Head(line), MaxOf(Tail(line)))

RECURSIVE LinesOfLen(_, _)
\* the lines of n stations, no station twice on a line, after stations 1..m
LinesOfLen(n, m) ==
  IF n = 0 THEN {<<>>}
  ELSE UNION {{Append(line, x) :
                 x \in 1..Min(NumStations, Max(m, MaxOf(line)) + 1) \ Range(line)} :
                line \in LinesOfLen(n - 1, m)}

RECURSIVE LineDictsFrom(_, _, _)
\* the line maps of at most k lines and at most stops stations in all, after
\* stations 1..m; the malformed lines (0 or 1 station) are drawn too
LineDictsFrom(k, stops, m) ==
  {<<>>} \cup
  (IF k = 0 THEN {}
   ELSE UNION {{<<line>> \o rest :
                  rest \in LineDictsFrom(k - 1, stops - Len(line),
                                         Max(m, MaxOf(line)))} :
                 line \in UNION {LinesOfLen(n, m) :
                                   n \in 0..Min(MaxLineLen, stops)}})

\* the line maps drawn, the empty one too
LineDicts == LineDictsFrom(MaxLines, MaxStops, 0)

\* a line map the spec calls well formed: not empty, every line of 2 or more
WellFormed(line_dict) ==
  /\ Len(line_dict) > 0
  /\ \A line_id \in 1..Len(line_dict) : Len(line_dict[line_id]) >= 2

(***************************************************************************)
(* The state.                                                              *)
(***************************************************************************)
VARIABLES
  line_dict,            \* the line map given to from_line_dict
  node_dict,            \* Network.node_dict: station -> connection list
  pc,                   \* where the program stands
  exception,            \* the exception that ended the run, or "none"
  start, other,         \* the arguments of the route_to call under way
  calls,                \* route_to calls made so far
  line_graph,           \* _find_needed_lines: its locals
  start_lines, end_lines, si, ei,
  shortest_path, possibles, startend,
  visited, incremental_visited, queue, length,
  needed,               \* what _find_needed_lines returned
  raw_paths,            \* route_to: the raw paths not searched yet
  min_path,             \* route_to: the shared best path
  raw_path,             \* route_to: the raw path of the last pass of its loop
  tree,                 \* route_to: the sequence tree of that raw path
  events,               \* what _get_best_path did on that tree
  default_path,         \* the list that is the default of _get_all_raw_paths's path
  default_linesVisited, \* the set that is the default of _get_sequence_tree's linesVisited
  visited_markers,      \* the visited dict of the last _get_all_raw_paths call
  result,               \* what the last finished route_to call returned
  first_result,         \* what the first route_to call returned
  p,                    \* SpecPath: a Path under append and pop
  cmp                   \* SpecPath: the outcome of the comparisons made

vars == <<line_dict, node_dict, pc, exception, start, other, calls, line_graph,
          start_lines, end_lines, si, ei, shortest_path, possibles, startend,
          visited, incremental_visited, queue, length, needed, raw_paths,
          min_path, default_path, default_linesVisited, visited_markers,
          result, first_result, p, cmp, raw_path, tree, events>>

needed_locals == <<line_graph, start_lines, end_lines, si, ei, shortest_path,
                   possibles, startend, visited, incremental_visited, queue,
                   length>>

defaults == <<default_path, default_linesVisited, visited_markers>>

path_vars == <<p, cmp>>

search_locals == <<raw_path, tree, events>>

\* a value for a variable that holds nothing yet
Unset == <<>>

InitCommon ==
  /\ node_dict = Unset
  /\ exception = "none"
  /\ start = 0 /\ other = 0
  /\ calls = 0
  /\ line_graph = Unset
  /\ start_lines = <<>> /\ end_lines = <<>>
  /\ si = 0 /\ ei = 0
  /\ shortest_path = maxsize
  /\ possibles = {} /\ startend = {}
  /\ visited = {} /\ incremental_visited = {}
  /\ queue = <<>> /\ length = 0
  /\ needed = {}
  /\ raw_paths = {}
  /\ min_path = SentinelPath
  /\ raw_path = Unset /\ tree = Unset /\ events = Unset
  /\ default_path = <<>>
  /\ default_linesVisited = {}
  /\ visited_markers = Unset
  /\ result = Unset
  /\ first_result = Unset

Init ==
  /\ line_dict \in LineDicts
  /\ pc = "build"
  /\ p = EmptyPath
  /\ cmp = Unset
  /\ InitCommon

(***************************************************************************)
(* Building the network.                                                   *)
(***************************************************************************)
\* Network.from_line_dict(line_dict)
FromLineDict ==
  /\ pc = "build"
  /\ IF FromLineDictRaises(line_dict)
     THEN /\ pc' = "raised"
          /\ exception' = "IndexError"
          /\ UNCHANGED node_dict
     ELSE /\ pc' = "idle"
          /\ node_dict' = from_line_dict(line_dict)
          /\ UNCHANGED exception
  /\ UNCHANGED <<line_dict, start, other, calls, needed_locals, needed,
                 raw_paths, min_path, defaults, result, first_result, path_vars, search_locals>>

\* Network(node_dict) on a hand-written node_dict (as main.py's NODE_DICT):
\* the stations of the line map, and one station with no connections
NetworkOfNodeDict ==
  /\ pc = "build"
  /\ ~FromLineDictRaises(line_dict)
  /\ pc' = "idle"
  /\ node_dict' = [n \in DOMAIN from_line_dict(line_dict) \cup {IsolatedStation} |->
                     IF n = IsolatedStation THEN <<>>
                     ELSE from_line_dict(line_dict)[n]]
  /\ UNCHANGED <<line_dict, exception, start, other, calls, needed_locals,
                 needed, raw_paths, min_path, defaults, result, first_result,
                 path_vars, search_locals>>

(***************************************************************************)
(* Network.route_to.                                                       *)
(***************************************************************************)
\* the requests drawn, on the network of a well-formed line map: every pair
\* of its stations, and pairs that name a station the network does not hold;
\* on a network with the isolated station, the pairs that name it
Requests ==
  LET ids == DOMAIN node_dict \cup {UnknownStation}
  IN IF ~WellFormed(line_dict) THEN {}
     ELSE IF IsolatedStation \in DOMAIN node_dict
     THEN {r \in ids \X ids : IsolatedStation \in {r[1], r[2]}}
     ELSE ids \X ids

\* a caller calls route_to(start, other); the body starts with the call of
\* _find_needed_lines(start, other)
RouteTo(s, o) ==
  /\ pc = "idle"
  /\ calls = 0
  /\ <<s, o>> \in Requests
  /\ start' = s /\ other' = o
  /\ calls' = 1
  /\ pc' = "find_needed_lines"
  /\ UNCHANGED <<line_dict, node_dict, exception, needed_locals, needed,
                 raw_paths, min_path, defaults, result, first_result, path_vars, search_locals>>

\* the caller repeats the call it made; the locals of the call that returned
\* are gone
RouteToAgain ==
  /\ pc = "returned"
  /\ calls = 1
  /\ calls' = 2
  /\ pc' = "find_needed_lines"
  /\ raw_path' = Unset /\ tree' = Unset /\ events' = Unset
  /\ UNCHANGED <<line_dict, node_dict, exception, start, other, needed_locals,
                 needed, raw_paths, min_path, defaults, result, first_result,
                 path_vars>>

\* _find_needed_lines, first part: the line graph is built
BuildLineGraph ==
  /\ pc = "find_needed_lines"
  /\ line_graph' = LineGraph(node_dict)
  /\ pc' = "connected_lines"
  /\ UNCHANGED <<line_dict, node_dict, exception, start, other, calls,
                 start_lines, end_lines, si, ei, shortest_path, possibles,
                 startend, visited, incremental_visited, queue, length, needed,
                 raw_paths, min_path, defaults, result, first_result, path_vars, search_locals>>

\* _find_needed_lines up to its loops: the lines of the two stations
\* (node_dict[...] raises KeyError on a missing id) and the fresh locals
ConnectedLines ==
  /\ pc = "connected_lines"
  /\ UNCHANGED line_graph
  /\ IF start \notin DOMAIN node_dict \/ other \notin DOMAIN node_dict
     THEN /\ pc' = "raised"
          /\ exception' = "KeyError"
          /\ UNCHANGED <<start_lines, end_lines>>
     ELSE /\ pc' = "pairs"
          /\ start_lines' = get_connected_lines(node_dict, start)
          /\ end_lines' = get_connected_lines(node_dict, other)
          /\ UNCHANGED exception
  /\ si' = 1 /\ ei' = 1
  /\ shortest_path' = maxsize
  /\ possibles' = {} /\ startend' = {}
  /\ visited' = {} /\ incremental_visited' = {}
  /\ queue' = <<>> /\ length' = 0
  /\ UNCHANGED <<line_dict, node_dict, start, other, calls, needed, raw_paths,
                 min_path, defaults, result, first_result, path_vars, search_locals>>

\* the two for loops move on: the next (start, end) pair of lines sets up its
\* search, or a start line without end lines is only noted, or the loops are
\* over and possibles.update(startend) is returned
NextPair ==
  /\ pc = "pairs"
  /\ IF si > Len(start_lines)
     THEN /\ needed' = possibles \cup startend
          /\ pc' = "raw_paths"
          /\ UNCHANGED needed_locals
     ELSE IF Len(end_lines) = 0
     THEN /\ startend' = startend \cup {start_lines[si]}
          /\ si' = si + 1
          /\ UNCHANGED <<pc, needed, line_graph, start_lines, end_lines, ei,
                         shortest_path, possibles, visited, incremental_visited,
                         queue, length>>
     ELSE /\ startend' = startend \cup {start_lines[si], end_lines[ei]}
          /\ visited' = {start_lines[si]}
          /\ incremental_visited' = {}
          /\ queue' = <<start_lines[si], MARK>>
          /\ length' = 1
          /\ pc' = "bfs"
          /\ UNCHANGED <<needed, line_graph, start_lines, end_lines, si, ei,
                         shortest_path, possibles>>
  /\ UNCHANGED <<line_dict, node_dict, exception, start, other, calls,
                 raw_paths, min_path, defaults, result, first_result, path_vars, search_locals>>

\* the orders a set can be iterated in
Orders(S) == {q \in [1..Cardinality(S) -> S] : Range(q) = S}

\* one pass of "while queue": the mark closes a level; a line looks at its
\* neighbours in the line graph (line_graph[...] raises KeyError for a line
\* that is no key), stops the search at the end line, and queues the others
BfsIteration ==
  /\ pc = "bfs"
  /\ queue # <<>>
  /\ LET current_line == Head(queue)
         rest == Tail(queue)
     IN IF current_line = MARK
        THEN /\ length < MaxLevel
             /\ length' = length + 1
             /\ queue' = Append(rest, MARK)
             /\ incremental_visited' = visited
             /\ UNCHANGED <<pc, exception, visited>>
        ELSE IF current_line \notin DOMAIN line_graph
        THEN /\ pc' = "raised"
             /\ exception' = "KeyError"
             /\ UNCHANGED <<queue, visited, incremental_visited, length>>
        ELSE IF end_lines[ei] \in line_graph[current_line]
        THEN \* the lines iterated before the end line were queued and visited
             /\ queue' = <<>>
             /\ \E before \in SUBSET (line_graph[current_line] \ {end_lines[ei]}) :
                  visited' = visited \cup before
             /\ UNCHANGED <<pc, exception, incremental_visited, length>>
        ELSE /\ \E order \in Orders(line_graph[current_line] \ visited) :
                  queue' = rest \o order
             /\ visited' = visited \cup line_graph[current_line]
             /\ UNCHANGED <<pc, exception, incremental_visited, length>>
  /\ UNCHANGED <<line_dict, node_dict, start, other, calls, line_graph,
                 start_lines, end_lines, si, ei, shortest_path, possibles,
                 startend, needed, raw_paths, min_path, defaults, result,
                 first_result, path_vars, search_locals>>

\* the while loop is left: the pair's level count against the shortest so far
BfsDone ==
  /\ pc = "bfs"
  /\ queue = <<>>
  /\ IF length < shortest_path
     THEN /\ shortest_path' = length
          /\ possibles' = incremental_visited
     ELSE IF length = shortest_path
     THEN /\ possibles' = possibles \cup incremental_visited
          /\ UNCHANGED shortest_path
     ELSE UNCHANGED <<shortest_path, possibles>>
  /\ IF ei < Len(end_lines)
     THEN ei' = ei + 1 /\ UNCHANGED si
     ELSE ei' = 1 /\ si' = si + 1
  /\ pc' = "pairs"
  /\ UNCHANGED <<line_dict, node_dict, exception, start, other, calls,
                 line_graph, start_lines, end_lines, startend, visited,
                 incremental_visited, queue, length, needed, raw_paths,
                 min_path, defaults, result, first_result, path_vars, search_locals>>

\* route_to, step 1: _get_all_raw_paths(start, other, needed) with its
\* defaults, then the sentinel min_path
GetAllRawPaths ==
  /\ pc = "raw_paths"
  /\ LET visited0 == [node_id \in DOMAIN node_dict |-> FALSE]
         got == get_all_raw_paths(node_dict, start, other, needed, visited0,
                                  {}, default_path)
     IN /\ raw_paths' = got.paths
        /\ default_path' = got.path
        /\ visited_markers' = got.visited
  /\ min_path' = SentinelPath
  /\ pc' = "search"
  /\ UNCHANGED <<line_dict, node_dict, exception, start, other, calls,
                 needed_locals, needed, default_linesVisited, result,
                 first_result, path_vars, search_locals>>

\* route_to, steps 2-3, one pass of "for raw_path in raw_paths_sorted": a
\* shortest raw path not yet searched (sorted is stable on the order of a set)
SearchTree ==
  /\ pc = "search"
  /\ \E rp \in raw_paths :
       /\ \A r \in raw_paths : Len(rp) <= Len(r)
       /\ LET t == get_sequence_tree(node_dict, rp, default_linesVisited, None)
              got == get_best_path(other, t, min_path, EmptyPath)
          IN /\ raw_path' = rp
             /\ tree' = t
             /\ events' = got.events
             /\ IF got.raised
                THEN /\ pc' = "raised"
                     /\ exception' = "IndexError"
                     /\ UNCHANGED <<raw_paths, min_path>>
                ELSE /\ raw_paths' = raw_paths \ {rp}
                     /\ min_path' = got.min_path
                     /\ UNCHANGED <<pc, exception>>
  /\ UNCHANGED <<line_dict, node_dict, start, other, calls, needed_locals,
                 needed, defaults, result, first_result, path_vars>>

\* route_to: "return min_path"
Return ==
  /\ pc = "search"
  /\ raw_paths = {}
  /\ result' = min_path
  /\ first_result' = IF calls = 1 THEN min_path ELSE first_result
  /\ pc' = "returned"
  /\ UNCHANGED <<line_dict, node_dict, exception, start, other, calls,
                 needed_locals, needed, raw_paths, min_path, defaults,
                 path_vars, search_locals>>

(***************************************************************************)
(* SpecPath: a Path under append and pop, and the comparator.              *)
(***************************************************************************)
\* the connections appended
PathConnections ==
  {Connection(node_id, line_id, distance) :
     node_id \in {1}, line_id \in 1..2, distance \in 0..MaxDistance}

\* the Paths p is compared with: made by the constructor from a cost alone,
\* as route_to makes its sentinel
CostPaths ==
  {Path(<<>>, distance, 0, num_transfers, <<>>) :
     distance \in 0..(MaxPathLen * MaxDistance) \cup {inf},
     num_transfers \in 0..MaxPathLen \cup {maxsize}}

InitPath ==
  /\ line_dict = <<>>
  /\ pc = "path"
  /\ p = EmptyPath
  /\ cmp = Unset
  /\ InitCommon

route_vars == <<line_dict, node_dict, exception, start, other, calls,
                needed_locals, needed, raw_paths, min_path, defaults, result,
                first_result, search_locals>>

\* p.append(value)
PathAppendStep(value) ==
  /\ pc = "path"
  /\ Len(p.path) < MaxPathLen
  /\ p' = PathAppend(p, value)
  /\ UNCHANGED <<pc, cmp, route_vars>>

\* p.pop()
PathPopStep ==
  /\ pc = "path"
  /\ p.path # <<>>
  /\ p' = PathPop(p)
  /\ UNCHANGED <<pc, cmp, route_vars>>

\* p < value, value < p and p == value are evaluated
PathCompare(value) ==
  /\ pc = "path"
  /\ cmp' = [self |-> p, value |-> value, lt |-> PathLt(p, value),
             gt |-> PathLt(value, p), eq |-> PathEq(p, value)]
  /\ pc' = "compared"
  /\ UNCHANGED <<p, route_vars>>

NextPath ==
  \/ \E value \in PathConnections : PathAppendStep(value)
  \/ PathPopStep
  \/ \E value \in CostPaths \cup {p} : PathCompare(value)

SpecPath == InitPath /\ [][NextPath]_vars

Next ==
  \/ FromLineDict
  \/ NetworkOfNodeDict
  \/ \E s, o \in Stations \cup {IsolatedStation, UnknownStation} : RouteTo(s, o)
  \/ RouteToAgain
  \/ BuildLineGraph
  \/ ConnectedLines
  \/ NextPair
  \/ BfsIteration
  \/ BfsDone
  \/ GetAllRawPaths
  \/ SearchTree
  \/ Return

Spec == Init /\ [][Next]_vars

(***************************************************************************)
(* What the claims speak of.                                               *)
(***************************************************************************)
\* a route_to call was made with two stations of the network
KnownRequest ==
  calls >= 1 /\ start \in DOMAIN node_dict /\ other \in DOMAIN node_dict

\* the line search is in the loop it never leaves: only the mark is queued,
\* and every pass takes the mark out and puts it back
Hangs == pc = "bfs" /\ queue = <<MARK>>

RECURSIVE ItineraryCosts(_, _, _, _, _)
\* <<transfers, distance>> of every way to go on from cur to end through
\* connections, over stations not in seen, having arrived on line last
ItineraryCosts(nd, cur, end, seen, last) ==
  IF cur = end THEN {<<0, 0>>}
  ELSE UNION
    {{<<c[1] + (IF last # None /\ nd[cur][i].line_id # last THEN 1 ELSE 0),
        c[2] + nd[cur][i].distance>> :
        c \in ItineraryCosts(nd, nd[cur][i].node_id, end,
                             seen \cup {nd[cur][i].node_id}, nd[cur][i].line_id)} :
       i \in {j \in DOMAIN nd[cur] : nd[cur][j].node_id \notin seen}}

\* the costs of all itineraries of the request under way
AllCosts == ItineraryCosts(node_dict, start, other, {start}, None)

\* cost c is strictly better than Path r
CostBetter(c, r) ==
  \/ c[1] < r.num_transfers
  \/ c[1] = r.num_transfers /\ r.distance # inf /\ c[2] < r.distance

(***************************************************************************)
(* C1.  Optimality: when route_to returns a Path of at least one           *)
(* connection for start # other, no itinerary from start to other (a       *)
(* simple station sequence with any connection on each hop) has fewer      *)
(* transfers, or as many transfers and a smaller distance.                 *)
(***************************************************************************)
C1_Optimal ==
  (pc = "returned" /\ KnownRequest /\ start # other /\ result.path # <<>>)
    => \A c \in AllCosts : ~CostBetter(c, result)

\* a Path was returned although an itinerary of smaller distance, with more
\* transfers, exists
C1_Witness ==
  /\ pc = "returned" /\ KnownRequest /\ start # other /\ result.path # <<>>
  /\ \E c \in AllCosts : c[2] < result.distance /\ c[1] > result.num_transfers

(***************************************************************************)
(* C2.  When other can be reached from start through connections (start #  *)
(* other), route_to returns a Path of at least one connection: the first   *)
(* is a connection of start, each next one a connection of the station the *)
(* one before leads to, and the last leads to other.  Returning excludes   *)
(* raising and excludes a loop that is never left.                         *)
(***************************************************************************)
\* Path r leads from s to e through connections of the network
LeadsFromTo(r, s, e) ==
  /\ r.path # <<>>
  /\ r.path[1] \in Range(node_dict[s])
  /\ \A i \in 1..(Len(r.path) - 1) :
       r.path[i + 1] \in Range(node_dict[r.path[i].node_id])
  /\ Last(r.path).node_id = e

C2_ReachableIsRouted ==
  (KnownRequest /\ start # other /\ AllCosts # {})
    => /\ pc # "raised"
       /\ ~Hangs
       /\ pc = "returned" => LeadsFromTo(result, start, other)

(***************************************************************************)
(* C3.  Path cost invariant: distance is the sum of the distances of the   *)
(* connections, num_transfers is len(transfers) and the number of adjacent *)
(* connections on different lines, and transfers is what _transfers(path)  *)
(* computes; for a Path under append and pop, and for every Path route_to  *)
(* returns.                                                                *)
(***************************************************************************)
RECURSIVE SumDistances(_)
SumDistances(path) ==
  IF path = <<>> THEN 0 ELSE Head(path).distance + SumDistances(Tail(path))

PathConsistent(r) ==
  /\ r.distance = SumDistances(r.path)
  /\ r.num_transfers = Len(r.transfers)
  /\ r.num_transfers =
       Cardinality({i \in 1..(Len(r.path) - 1) :
                      r.path[i].line_id # r.path[i + 1].line_id})
  /\ r.transfers = Transfers(r.path)

\* the part on route_to's results
C3_ReturnedPathConsistent == pc = "returned" => PathConsistent(result)

\* the part on append and pop (SpecPath)
C3_AppendPopConsistent == PathConsistent(p)

(***************************************************************************)
(* C4.  Station count.  As claimed: num_stations is the number of          *)
(* connections plus 1 (the origin is counted).  As the code has it:        *)
(* num_stations is the number of connections (the connection targets; the  *)
(* origin is not counted), for the shared best path during the search and  *)
(* for the Path returned.                                                  *)
(***************************************************************************)
C4_StationCountWithOrigin ==
  pc = "returned" => result.num_stations = Len(result.path) + 1

C4_StationCountIsLength ==
  /\ pc \in {"search", "returned"} => min_path.num_stations = Len(min_path.path)
  /\ pc = "returned" => result.num_stations = Len(result.path)

\* a Path of two or more connections was returned
C4_Witness == pc = "returned" /\ Len(result.path) >= 2

(***************************************************************************)
(* C5.  NoRoute: for two different stations of the network that no         *)
(* itinerary connects, route_to finishes (it does not raise, it does not   *)
(* loop for ever) and what it returns is not a Path.                       *)
(***************************************************************************)
IsPath(v) ==
  DOMAIN v = {"path", "distance", "num_stations", "num_transfers", "transfers"}

C5_NoRouteReported ==
  (KnownRequest /\ start # other /\ AllCosts = {})
    => /\ pc # "raised"
       /\ ~Hangs
       /\ pc = "returned" => ~IsPath(result)

(***************************************************************************)
(* C6.  Degenerate request: route_to(s, s) for a station s of the network  *)
(* does not fail (the leaf check is not evaluated on an empty path, which  *)
(* raises IndexError) and returns a Path of zero connections, zero         *)
(* transfers and zero distance.                                            *)
(***************************************************************************)
C6_DegenerateRequest ==
  (KnownRequest /\ start = other)
    => /\ pc # "raised"
       /\ ~Hangs
       /\ pc = "returned" =>
            /\ result.path = <<>>
            /\ result.num_transfers = 0
            /\ result.distance = 0

(***************************************************************************)
(* C7.  UnknownStation: when start or other is no station of the network,  *)
(* route_to reports UnknownStation before the relevance filter has done    *)
(* any work: the call is never found inside the filter with its line graph *)
(* built, and it does not end by the failed lookup of the missing id.      *)
(***************************************************************************)
C7_UnknownStationFirst ==
  (calls >= 1 /\ (start \notin DOMAIN node_dict \/ other \notin DOMAIN node_dict))
    => /\ pc \in {"find_needed_lines", "raised"}
       /\ pc = "raised" => exception = "UnknownStation"

(***************************************************************************)
(* C8.  MalformedNetwork: building from a line map that is empty or has a  *)
(* line of fewer than 2 stations fails; from any other line map it         *)
(* succeeds, and then on each line a station has the connections to its    *)
(* predecessor and its successor, of distance 1, and no others: two for an *)
(* interior station, one for an endpoint, so a -> b is on line L iff       *)
(* b -> a is.                                                              *)
(***************************************************************************)
\* the connections of station n on line line_id, in order
OnLine(n, line_id) ==
  LET OfLine(connection) == connection.line_id = line_id
  IN SelectSeq(node_dict[n], OfLine)

LineConnectionsRight(line_id) ==
  LET line == line_dict[line_id]
  IN \A n \in DOMAIN node_dict :
       LET got == OnLine(n, line_id)
       IN IF n \notin Range(line) THEN got = <<>>
          ELSE LET i == CHOOSE j \in 1..Len(line) : line[j] = n
               IN /\ \A k \in 1..Len(got) : got[k].distance = 1
                  /\ IF i = 1 THEN got = <<Connection(line[2], line_id, 1)>>
                     ELSE IF i = Len(line)
                     THEN got = <<Connection(line[i - 1], line_id, 1)>>
                     ELSE /\ Len(got) = 2
                          /\ Range(got) = {Connection(line[i - 1], line_id, 1),
                                           Connection(line[i + 1], line_id, 1)}

ConnectionsSymmetric ==
  \A a \in DOMAIN node_dict : \A i \in DOMAIN node_dict[a] :
    /\ node_dict[a][i].node_id \in DOMAIN node_dict
    /\ Connection(a, node_dict[a][i].line_id, 1)
         \in Range(node_dict[node_dict[a][i].node_id])

C8_MalformedNetwork ==
  pc # "build" =>
    IF ~WellFormed(line_dict)
    THEN pc = "raised" /\ calls = 0
    ELSE /\ node_dict # Unset
         /\ \A line_id \in 1..Len(line_dict) : LineConnectionsRight(line_id)
         /\ ConnectionsSymmetric

\* the part on well-formed line maps
C8_WellFormedBuilt ==
  (pc # "build" /\ WellFormed(line_dict))
    => /\ node_dict # Unset
       /\ \A line_id \in 1..Len(line_dict) : LineConnectionsRight(line_id)
       /\ ConnectionsSymmetric

(***************************************************************************)
(* C9.  Idempotence: when a route_to call returns, the default list of     *)
(* _get_all_raw_paths is empty again, the default set of                   *)
(* _get_sequence_tree is empty, every visited marker is False and the      *)
(* node_dict is the one built; and the second of two calls with the same   *)
(* arguments returns a Path with the num_transfers and the distance of the *)
(* first.                                                                  *)
(***************************************************************************)
BuiltNodeDict ==
  [n \in DOMAIN node_dict |->
     IF n = IsolatedStation THEN <<>> ELSE ConnectionList(line_dict, n)]

C9_Idempotent ==
  pc = "returned" =>
    /\ default_path = <<>>
    /\ default_linesVisited = {}
    /\ \A n \in DOMAIN visited_markers : visited_markers[n] = FALSE
    /\ node_dict = BuiltNodeDict
    /\ calls = 2 =>
         /\ result.num_transfers = first_result.num_transfers
         /\ result.distance = first_result.distance

\* a second call returned a route with a transfer
C9_Witness ==
  /\ pc = "returned" /\ calls = 2
  /\ result.path # <<>> /\ result.num_transfers >= 1
  /\ first_result.path # <<>>

(***************************************************************************)
(* C10.  The comparator is a total preorder on (num_transfers, distance):  *)
(* of a < b, b < a and a == b exactly one holds; a < b iff a has fewer     *)
(* transfers, or as many and a smaller distance; a == b iff both fields    *)
(* are equal, whatever the connections; < is irreflexive and transitive;   *)
(* and every Path of finite cost is < the sentinel.                        *)
(***************************************************************************)
\* a has fewer transfers, or as many and a smaller distance
FewerOrShorter(a, b) ==
  \/ a.num_transfers < b.num_transfers
  \/ /\ a.num_transfers = b.num_transfers
     /\ a.distance # inf
     /\ b.distance = inf \/ a.distance < b.distance

C10_TotalPreorder ==
  cmp # Unset =>
    LET a == cmp.self
        b == cmp.value
    IN /\ Cardinality({k \in {"lt", "gt", "eq"} : cmp[k]}) = 1
       /\ cmp.lt <=> FewerOrShorter(a, b)
       /\ cmp.gt <=> FewerOrShorter(b, a)
       /\ cmp.eq <=> (a.num_transfers = b.num_transfers /\ a.distance = b.distance)
       /\ b = a => ~cmp.lt
       /\ \A c \in CostPaths : (cmp.lt /\ PathLt(b, c)) => PathLt(a, c)
       /\ (b = SentinelPath /\ a.num_transfers < maxsize /\ a.distance # inf)
            => cmp.lt

\* a Path with a transfer was found equal to a Path with other connections
C10_Witness ==
  /\ cmp # Unset
  /\ cmp.eq /\ cmp.self.path # cmp.value.path
  /\ cmp.self.num_transfers >= 1

(***************************************************************************)
(* C11.  Termination of the relevance filter: for two stations of a        *)
(* network built from a valid line map, no search of a pair of lines stays *)
(* in its while loop for ever, and no line looked up in the line graph is  *)
(* missing there (line_graph[current_line] does not raise KeyError).       *)
(***************************************************************************)
C11_FilterTerminates ==
  (KnownRequest /\ WellFormed(line_dict) /\ IsolatedStation \notin DOMAIN node_dict)
    => /\ ~Hangs
       /\ ~(pc = "raised" /\ exception = "KeyError")

(***************************************************************************)
(* C15.  Fail-soft of the relevance filter: with S the lines at start and  *)
(* E the lines at other, what _find_needed_lines returns holds every line  *)
(* of S and of E, and is exactly S \cup E when S or E is empty.            *)
(***************************************************************************)
C15_FailSoft ==
  pc = "raw_paths" =>
    LET S == Range(start_lines)
        E == Range(end_lines)
    IN /\ (S \cup E) \subseteq needed
       /\ (S = {} \/ E = {}) => needed = S \cup E

\* the part that holds: every line of S is returned, and exactly S when E is
\* empty
C15_StartLinesKept ==
  pc = "raw_paths" =>
    LET S == Range(start_lines)
        E == Range(end_lines)
    IN /\ S \subseteq needed
       /\ S # {} => E \subseteq needed
       /\ E = {} => needed = S
       /\ S = {} => needed = {}

(***************************************************************************)
(* C13.  Sequence tree exactness: the root-to-node branches of the tree of *)
(* a raw path n0..nk are exactly the connection sequences in which hop i   *)
(* is a connection of ni to n(i+1) whose line is the line of hop i-1 or a  *)
(* line no earlier hop used; so no branch is back on a line it has left.   *)
(***************************************************************************)
RECURSIVE Branches(_)
\* the connection sequences from the root of tree t to each of its nodes
Branches(t) ==
  UNION {{<<t[k].connection>>} \cup
         {<<t[k].connection>> \o b : b \in Branches(t[k].tree)} :
           k \in DOMAIN t}

RECURSIVE HopChoices(_, _)
\* every way to pick, for each of the first j hops of raw path rp, a
\* connection of the hop's station to the next station
HopChoices(rp, j) ==
  IF j = 0 THEN {<<>>}
  ELSE {Append(cs, c) :
          cs \in HopChoices(rp, j - 1),
          c \in {d \in Range(node_dict[rp[j]]) : d.node_id = rp[j + 1]}}

\* hop i of cs stays on the line of hop i-1 or takes a line not used before
NoLineReuse(cs) ==
  \A i \in 2..Len(cs) :
    \/ cs[i].line_id = cs[i - 1].line_id
    \/ \A h \in 1..(i - 1) : cs[h].line_id # cs[i].line_id

\* cs is never back on a line it used and then left
NeverReboards(cs) ==
  \A i, j, k \in 1..Len(cs) :
    (i < j /\ j < k /\ cs[i].line_id = cs[k].line_id)
      => cs[j].line_id = cs[i].line_id

C13_TreeExact ==
  raw_path # Unset =>
    /\ Branches(tree) =
         {cs \in UNION {HopChoices(raw_path, j) : j \in 1..(Len(raw_path) - 1)} :
            NoLineReuse(cs)}
    /\ \A cs \in Branches(tree) : NeverReboards(cs)
    /\ default_linesVisited = {}

\* a tree was built in which two connections branch off at one node, for a
\* raw path of three hops on which a choice of connections is back on a line
\* it had left
C13_Witness ==
  /\ raw_path # Unset
  /\ Len(raw_path) >= 4
  /\ \E b1, b2 \in Branches(tree) :
       b1 # b2 /\ Len(b1) = Len(b2) /\ Front(b1) = Front(b2)
  /\ \E cs \in HopChoices(raw_path, Len(raw_path) - 1) : ~NeverReboards(cs)
  /\ \E cs \in Branches(tree) : Len(cs) = Len(raw_path) - 1

(***************************************************************************)
(* C12.  Monotone-improving best cell: over the traversal of a tree,       *)
(* min_path changes only by set_self at a leaf, to a copy of a path that   *)
(* ends at the destination and is strictly better than the value replaced; *)
(* no append or pop on the path in progress changes it; a branch is left   *)
(* only when the path in progress is not strictly better than min_path;    *)
(* and an append lowers neither num_transfers nor distance.                *)
(***************************************************************************)
C12_BestCell ==
  events # Unset =>
    /\ \A i \in DOMAIN events :
         LET e == events[i]
         IN /\ (e.new # e.old \/ e.kind = "set_self") =>
                 /\ e.kind = "set_self"
                 /\ Last(e.path.path).node_id = other
                 /\ PathLt(e.new, e.old)
                 /\ e.new = e.path
            /\ (e.kind = "append" /\ ~e.descends) => ~PathLt(e.path, e.new)
            /\ e.kind = "append" =>
                 /\ e.path.num_transfers >= e.from.num_transfers
                 /\ e.path.distance >= e.from.distance
            /\ i > 1 => e.old = events[i - 1].new
    /\ (events # <<>> /\ pc # "raised") => Last(events).new = min_path

\* on one tree a best path that was not the sentinel was replaced by a
\* better one, and the path in progress was popped afterwards
C12_Witness ==
  /\ events # Unset
  /\ \E i, j \in DOMAIN events :
       /\ events[i].kind = "set_self" /\ events[i].old.path # <<>>
       /\ j > i /\ events[j].kind = "pop"

\* a branch was left on a tree on which min_path was replaced
C12_BranchLeft ==
  /\ events # Unset
  /\ \E i, k \in DOMAIN events :
       /\ events[i].kind = "set_self"
       /\ events[k].kind = "append" /\ ~events[k].descends

(***************************************************************************)
(* C14.  The relevance filter never costs a route: when the search of      *)
(* route_to run with every line taken as needed returns a Path, route_to   *)
(* with the set of _find_needed_lines returns too (it does not raise, it   *)
(* does not loop for ever), with the same num_transfers and distance.      *)
(***************************************************************************)
\* every line id of the network
AllLines ==
  UNION {{node_dict[n][i].line_id : i \in DOMAIN node_dict[n]} :
           n \in DOMAIN node_dict}

RECURSIVE SortedByLen(_)
\* sorted(raw_paths, key=len), for one iteration order of the set
SortedByLen(S) ==
  IF S = {} THEN <<>>
  ELSE LET first == CHOOSE x \in S : \A y \in S : Len(x) <= Len(y)
       IN <<first>> \o SortedByLen(S \ {first})

RECURSIVE SearchAll(_, _)
\* the loop of route_to over the sorted raw paths; min_path is replaced only
\* by a strictly better Path, so the cost it ends with is the same for every
\* order of raw paths of one length
SearchAll(sorted, acc) ==
  IF sorted = <<>> \/ acc.raised THEN acc
  ELSE LET got == get_best_path(other,
                                get_sequence_tree(node_dict, Head(sorted), {}, None),
                                acc.min_path, EmptyPath)
       IN SearchAll(Tail(sorted),
                    [min_path |-> got.min_path, raised |-> got.raised])

\* route_to(start, other) with all lines needed in place of _find_needed_lines
Unfiltered ==
  LET visited0 == [node_id \in DOMAIN node_dict |-> FALSE]
      got == get_all_raw_paths(node_dict, start, other, AllLines, visited0,
                               {}, <<>>)
  IN SearchAll(SortedByLen(got.paths),
               [min_path |-> SentinelPath, raised |-> FALSE])

C14_FilterCostsNoRoute ==
  (KnownRequest /\ (Hangs \/ pc \in {"raised", "returned"}) /\ ~Unfiltered.raised)
    => /\ ~Hangs
       /\ pc # "raised"
       /\ result.num_transfers = Unfiltered.min_path.num_transfers
       /\ result.distance = Unfiltered.min_path.distance

\* the part that holds: a route_to call that returns has the cost of the
\* search with every line needed
C14_SameCostWhenReturned ==
  (KnownRequest /\ pc = "returned" /\ ~Unfiltered.raised)
    => /\ result.num_transfers = Unfiltered.min_path.num_transfers
       /\ result.distance = Unfiltered.min_path.distance

=============================================================================
